---- MODULE Spec2Model ----
(***************************************************************************)
(* Model of src/scenes/Game.js of phaserjs/template-rapier: the Game scene  *)
(* that initialises Rapier asynchronously (create), populates one world     *)
(* with a dynamic and a fixed body, and on every frame (update) steps the   *)
(* world and copies each body's transform onto its Phaser game object.      *)
(*                                                                         *)
(* Numbers.  Lengths are integers in units of 1/Scale pixel and time is     *)
(* counted in world steps of 1/60 s, so that the gravity of 9.81 adds the   *)
(* whole number 981 to a velocity in every step.  Angles are integers in    *)
(* units of pi/AnglePi.                                                     *)
(*                                                                         *)
(* The Rapier engine and the Phaser game objects are libraries the scene    *)
(* calls; the model gives them the behaviour of their contracts             *)
(* (WorldStep, SetRotation) and says so at each definition.                 *)
(***************************************************************************)
EXTENDS Integers, Sequences, FiniteSets, TLC

\* ------------------------------------------------------------------ bounds
\* Frames (calls of update) of one session of the scene.
MaxFrames == 600
\* Frames of a session that find the world not yet set.
MaxIdleFrames == 3
\* Frames run on a sample world.
MaxSyncFrames == 2
\* Bodies of a sample world.
MaxBodies == 2
\* Pointerdown events of one session.
MaxPointerDowns == 2

\* --------------------------------------------------------------- constants
\* Fixed-point unit: one pixel is Scale units.
Scale == 360000
\* Half a turn, in angle units.
AnglePi == 2
\* new RAPIER.Vector2(0.0, 9.81): velocity gained per step, per axis.
GravityX == 0
GravityY == 981
\* this.add.image(512, 384, 'background').setAlpha(0.5)
BackgroundX == 512
BackgroundY == 384
BackgroundAlpha == 50
\* this.add.image(512, 100, 'logo')
LogoX == 512
LogoY == 100
\* this.add.text(512, 584, ...)
TextX == 512
TextY == 584
\* colliderDesc.setRestitution(0.7), in percent
LogoRestitution == 70
\* display sizes of the two game objects, in pixels
LogoDisplayWidth == 64
LogoDisplayHeight == 64
TextDisplayWidth == 200
TextDisplayHeight == 40

\* ------------------------------------------------------------------ values
\* this.rapierWorld before the assignment of line 16
NoWorld == [kind |-> "undefined"]
\* the game objects of the scene
EntityIds == {"background", "logo", "text"}
\* falsy user data: never set, or set to null
FalsyUserData == {"undefined", "null"}
\* no collider attached to a body
NoCollider == [hx |-> 0, hy |-> 0, restitution |-> 0]

VARIABLES
    createPc,       \* create(): "start", "awaiting" (at await RAPIER.init()), "done", "rejected"
    rapierWorld,    \* this.rapierWorld: NoWorld or a world record
    worldsCreated,  \* number of new RAPIER.World(...) evaluated so far
    entities,       \* the game objects of the scene: id -> [x, y, rotation, alpha]
    listener,       \* the once('pointerdown') listener is registered
    activeScene,    \* "Game", or "GameOver" after this.scene.start('GameOver')
    frames,         \* calls of update so far
    framesAtInit,   \* value of frames when the awaited init completed
    callLog,        \* the engine and game-object calls of the last update, in order
    fault,          \* "none", or the error the last call threw
    pointerDowns,   \* pointerdown events delivered to the scene's input so far
    sceneStarts     \* calls of this.scene.start('GameOver') so far

vars == <<createPc, rapierWorld, worldsCreated, entities, listener,
          activeScene, frames, framesAtInit, callLog, fault, pointerDowns, sceneStarts>>

\* ------------------------------------------------------------ game objects
\* this.add.image(x, y, key) / this.add.text(x, y, ...): a new game object
NewGameObject(x, y) ==
    [x |-> x * Scale, y |-> y * Scale, rotation |-> 0, alpha |-> 100]

\* Phaser.Math.Angle.Wrap: into [-pi, pi)
WrapAngle(a) == ((a + AnglePi) % (2 * AnglePi)) - AnglePi

\* gameObject.setRotation(angle): the rotation setter stores the wrapped angle
SetRotation(obj, angle) == [obj EXCEPT !.rotation = WrapAngle(angle)]

\* ------------------------------------------------------------------ engine
\* RAPIER.RigidBodyDesc.dynamic() / .fixed() with setTranslation and setUserData,
\* turned into a body by createRigidBody: at rest, unrotated, no collider yet
CreateRigidBody(type, x, y, userData) ==
    [type |-> type, x |-> x, y |-> y, vx |-> 0, vy |-> 0,
     rot |-> 0, angvel |-> 0, userData |-> userData, collider |-> NoCollider]

\* RAPIER.ColliderDesc.cuboid(hx, hy) [.setRestitution(r)]
Cuboid(hx, hy, restitution) == [hx |-> hx, hy |-> hy, restitution |-> restitution]

\* createCollider(colliderDesc, rigidBody)
CreateCollider(body, colliderDesc) == [body EXCEPT !.collider = colliderDesc]

\* new RAPIER.World(gravity)
NewWorld(gx, gy) ==
    [kind |-> "World", gx |-> gx, gy |-> gy, bodies |-> <<>>, steps |-> 0, contacts |-> 0]

HasCollider(b) == b.collider.hx > 0 /\ b.collider.hy > 0

\* rigidBody.rotation(): the angle of the body, in (-pi, pi]
BodyAngle(a) == AnglePi - ((AnglePi - a) % (2 * AnglePi))

\* a dynamic body after one step of free motion: gravity, then velocity
Integrate(w, b) ==
    LET vx == b.vx + w.gx
        vy == b.vy + w.gy
    IN  [b EXCEPT !.vx = vx, !.vy = vy, !.x = b.x + vx, !.y = b.y + vy,
                  !.rot = BodyAngle(b.rot + b.angvel)]

\* the moved body m (from b) has come down onto the top face of fixed body f
LandsOn(b, m, f) ==
    /\ f.type = "fixed" /\ HasCollider(f) /\ HasCollider(b)
    /\ m.x - f.x < b.collider.hx + f.collider.hx
    /\ f.x - m.x < b.collider.hx + f.collider.hx
    /\ b.y + b.collider.hy <= f.y - f.collider.hy
    /\ m.y + b.collider.hy >= f.y - f.collider.hy

\* collision response: rest on the face, rebound with the restitution
Rebound(m, f) ==
    [m EXCEPT !.y = f.y - f.collider.hy - m.collider.hy,
              !.vy = 0 - ((m.collider.restitution * m.vy) \div 100)]

\* indices of the fixed bodies body i lands on in this step
Landings(w, i) ==
    LET b == w.bodies[i]
    IN  IF b.type # "dynamic" THEN {}
        ELSE {j \in DOMAIN w.bodies : LandsOn(b, Integrate(w, b), w.bodies[j])}

\* body i after one step: a fixed body keeps its transform
StepBody(w, i) ==
    LET b == w.bodies[i]
        hit == Landings(w, i)
    IN  IF b.type # "dynamic" THEN b
        ELSE IF hit = {} THEN Integrate(w, b)
        ELSE LET j == CHOOSE k \in hit : \A l \in hit :
                          w.bodies[k].y - w.bodies[k].collider.hy
                              <= w.bodies[l].y - w.bodies[l].collider.hy
             IN  Rebound(Integrate(w, b), w.bodies[j])

\* world.step(): every body advanced by one fixed step
WorldStep(w) ==
    [w EXCEPT !.bodies = [i \in DOMAIN w.bodies |-> StepBody(w, i)],
              !.steps = w.steps + 1,
              !.contacts = w.contacts
                  + Cardinality({i \in DOMAIN w.bodies : Landings(w, i) # {}})]

\* ------------------------------------------------------------ Game.update
\* one entry of callLog
Entry(op, body, target, value) ==
    [op |-> op, body |-> body, target |-> target, value |-> value]

\* the guard of update with the test lost: the body of the if always runs
WorldInitializedAlways(w) == TRUE

\* if (this.rapierWorld !== undefined)
WorldInitialized(w) == w # NoWorld

\* the test of the README's complete example: gameObject !== undefined
TruthyNotUndefined(userData) == userData # "undefined"

\* if (gameObject)
Truthy(userData) == userData \notin FalsyUserData

\* lines 82-86 with the angle read but a stale value passed on: setRotation(0)
CopyTransformStaleAngle(acc, b, i) ==
    LET e == b.userData
        read == acc.log \o <<Entry("translation", i, "", 0), Entry("rotation", i, "", 0)>>
    IN  IF e \notin DOMAIN acc.entities
        THEN [acc EXCEPT !.log = read, !.fault = "TypeError"]
        ELSE [acc EXCEPT
                !.entities = [acc.entities EXCEPT
                    ![e] = SetRotation([@ EXCEPT !.x = b.x, !.y = b.y], 0)],
                !.log = read \o <<Entry("set x", i, e, b.x), Entry("set y", i, e, b.y),
                                  Entry("setRotation", i, e, 0)>>]

\* lines 82-86: read the body's transform, write it to the game object
CopyTransform(acc, b, i) ==
    LET e == b.userData
        read == acc.log \o <<Entry("translation", i, "", 0), Entry("rotation", i, "", 0)>>
    IN  IF e \notin DOMAIN acc.entities
        THEN [acc EXCEPT !.log = read, !.fault = "TypeError"]
        ELSE [acc EXCEPT
                !.entities = [acc.entities EXCEPT
                    ![e] = SetRotation([@ EXCEPT !.x = b.x, !.y = b.y], b.rot)],
                !.log = read \o <<Entry("set x", i, e, b.x), Entry("set y", i, e, b.y),
                                  Entry("setRotation", i, e, b.rot)>>]

\* the callback of forEach with gameObject declared outside the loop and
\* assigned only when the user data is truthy: a body without a game object
\* writes its transform to the game object of the body visited before it
SyncBodyStickyObject(acc, b, i) ==
    LET seen == [acc EXCEPT !.log = acc.log \o <<Entry("userData", i, "", 0)>>]
        writes == {k \in DOMAIN acc.log : acc.log[k].op = "setRotation"}
        last == CHOOSE k \in writes : \A l \in writes : l <= k
    IN  IF Truthy(b.userData) THEN CopyTransform(seen, b, i)
        ELSE IF writes = {} THEN seen
        ELSE CopyTransform(seen, [b EXCEPT !.userData = acc.log[last].target], i)

\* the callback of forEach writing the transform to every game object of the
\* scene instead of the one in the body's user data
SyncBodyAllObjects(acc, b, i) ==
    LET seen == [acc EXCEPT !.log = acc.log \o <<Entry("userData", i, "", 0)>>]
    IN  IF Truthy(b.userData)
        THEN [seen EXCEPT !.entities =
                [e \in DOMAIN seen.entities |->
                    SetRotation([seen.entities[e] EXCEPT !.x = b.x, !.y = b.y], b.rot)]]
        ELSE seen

\* lines 76-88: the callback of bodies.forEach for body i
SyncBody(acc, b, i) ==
    LET seen == [acc EXCEPT !.log = acc.log \o <<Entry("userData", i, "", 0)>>]
    IN  IF Truthy(b.userData) THEN CopyTransform(seen, b, i) ELSE seen

\* this.rapierWorld.bodies.forEach(...): bodies i, i+1, ... in the world's order;
\* a throw leaves the loop
RECURSIVE SyncBodies(_, _, _)
SyncBodies(acc, bodies, i) ==
    IF i > Len(bodies) \/ acc.fault # "none" THEN acc
    ELSE SyncBodies(SyncBody(acc, bodies[i], i), bodies, i + 1)

\* lines 73-88 with the two halves exchanged: the copy loop, then the step
SyncThenStep(w, ents) ==
    IF w.kind # "World"
    THEN [world |-> w, entities |-> ents, log |-> <<>>, fault |-> "TypeError"]
    ELSE LET acc == SyncBodies([entities |-> ents, log |-> <<>>, fault |-> "none"],
                               w.bodies, 1)
         IN  [world |-> WorldStep(w), entities |-> acc.entities,
              log |-> acc.log \o <<Entry("step", 0, "", 0)>>, fault |-> acc.fault]

\* lines 73-88: step, then the copy loop
StepAndSync(w, ents) ==
    IF w.kind # "World"
    THEN [world |-> w, entities |-> ents, log |-> <<>>, fault |-> "TypeError"]
    ELSE LET stepped == WorldStep(w)
             acc == SyncBodies([entities |-> ents,
                                log |-> <<Entry("step", 0, "", 0)>>,
                                fault |-> "none"], stepped.bodies, 1)
         IN  [world |-> stepped, entities |-> acc.entities,
              log |-> acc.log, fault |-> acc.fault]

\* update with catch-up: the world is stepped twice in one call
StepTwiceAndSync(w, ents) ==
    IF WorldInitialized(w) THEN StepAndSync(WorldStep(w), ents)
    ELSE [world |-> w, entities |-> ents, log |-> <<>>, fault |-> "none"]

\* update (): lines 67-90
GameUpdate(w, ents) ==
    IF WorldInitialized(w) THEN StepAndSync(w, ents)
    ELSE [world |-> w, entities |-> ents, log |-> <<>>, fault |-> "none"]

\* ------------------------------------------- README: the single-loop update
\* gameObject.setPosition(position.x, position.y); gameObject.setRotation(angle);
\* the loop declares `rotation`, so evaluating `angle` throws a ReferenceError
ReadmeCopyTransform(acc, b, i) ==
    LET e == b.userData
        read == acc.log \o <<Entry("translation", i, "", 0), Entry("rotation", i, "", 0)>>
    IN  IF e \notin DOMAIN acc.entities
        THEN [acc EXCEPT !.log = read, !.fault = "TypeError"]
        ELSE [acc EXCEPT
                !.entities = [acc.entities EXCEPT ![e] = [@ EXCEPT !.x = b.x, !.y = b.y]],
                !.log = read \o <<Entry("set x", i, e, b.x), Entry("set y", i, e, b.y)>>,
                !.fault = "ReferenceError"]

ReadmeSyncBody(acc, b, i) ==
    LET seen == [acc EXCEPT !.log = acc.log \o <<Entry("userData", i, "", 0)>>]
    IN  IF Truthy(b.userData) THEN ReadmeCopyTransform(seen, b, i) ELSE seen

RECURSIVE ReadmeSyncBodies(_, _, _)
ReadmeSyncBodies(acc, bodies, i) ==
    IF i > Len(bodies) \/ acc.fault # "none" THEN acc
    ELSE ReadmeSyncBodies(ReadmeSyncBody(acc, bodies[i], i), bodies, i + 1)

\* README lines 158-181: if (!this.rapierWorld) return; step; forEach
ReadmeUpdate(w, ents) ==
    IF w = NoWorld
    THEN [world |-> w, entities |-> ents, log |-> <<>>, fault |-> "none"]
    ELSE LET stepped == WorldStep(w)
             acc == ReadmeSyncBodies([entities |-> ents,
                                      log |-> <<Entry("step", 0, "", 0)>>,
                                      fault |-> "none"], stepped.bodies, 1)
         IN  [world |-> stepped, entities |-> acc.entities,
              log |-> acc.log, fault |-> acc.fault]

\* lines 23-41 without line 27: the descriptor keeps its default translation (0, 0)
LogoBodyAtOrigin(logo) ==
    CreateCollider(CreateRigidBody("dynamic", 0, 0, "logo"),
                   Cuboid((LogoDisplayWidth * Scale) \div 2,
                          (LogoDisplayHeight * Scale) \div 2, LogoRestitution))

\* ------------------------------------------------------------ Game.create
\* lines 23-41: the logo's dynamic body with its cuboid collider
LogoBody(logo) ==
    CreateCollider(CreateRigidBody("dynamic", logo.x, logo.y, "logo"),
                   Cuboid((LogoDisplayWidth * Scale) \div 2,
                          (LogoDisplayHeight * Scale) \div 2, LogoRestitution))

\* lines 50-58 with the first descriptor's call repeated: rigidBodyDesc2.setUserData(logo)
TextBodyLogoData(text) ==
    CreateCollider(CreateRigidBody("fixed", text.x, text.y, "logo"),
                   Cuboid((TextDisplayWidth * Scale) \div 2,
                          (TextDisplayHeight * Scale) \div 2, 0))

\* lines 50-58 with the descriptor of the logo's body: RigidBodyDesc.dynamic()
TextBodyDynamic(text) ==
    CreateCollider(CreateRigidBody("dynamic", text.x, text.y, "text"),
                   Cuboid((TextDisplayWidth * Scale) \div 2,
                          (TextDisplayHeight * Scale) \div 2, 0))

\* lines 50-58: the text's fixed body with its cuboid collider
TextBody(text) ==
    CreateCollider(CreateRigidBody("fixed", text.x, text.y, "text"),
                   Cuboid((TextDisplayWidth * Scale) \div 2,
                          (TextDisplayHeight * Scale) \div 2, 0))

\* lines 20, 23, 43: the game objects create adds to the scene
SceneObjects ==
    [e \in EntityIds |->
        CASE e = "background" ->
                [NewGameObject(BackgroundX, BackgroundY) EXCEPT !.alpha = BackgroundAlpha]
          [] e = "logo" -> NewGameObject(LogoX, LogoY)
          [] e = "text" -> NewGameObject(TextX, TextY)]

\* line 16 with the components of the gravity exchanged: Vector2(9.81, 0.0)
SceneWorldGravitySideways(objs) ==
    [NewWorld(GravityY, GravityX) EXCEPT
        !.bodies = <<LogoBody(objs["logo"]), TextBody(objs["text"])>>]

\* lines 16-58: the world create builds once the init has completed
SceneWorld(objs) ==
    [NewWorld(GravityX, GravityY) EXCEPT
        !.bodies = <<LogoBody(objs["logo"]), TextBody(objs["text"])>>]

\* ----------------------------------------------------------------- actions
Init ==
    /\ createPc = "start"
    /\ rapierWorld = NoWorld
    /\ worldsCreated = 0
    /\ entities = <<>>
    /\ listener = FALSE
    /\ activeScene = "Game"
    /\ frames = 0
    /\ framesAtInit = 0
    /\ callLog = <<>>
    /\ fault = "none"
    /\ pointerDowns = 0
    /\ sceneStarts = 0

\* create () up to its await: RAPIER.init() is started, create is suspended
CreateBegin ==
    /\ createPc = "start" /\ activeScene = "Game" /\ fault = "none"
    /\ createPc' = "awaiting"
    /\ UNCHANGED <<rapierWorld, worldsCreated, entities, listener, activeScene,
                   frames, framesAtInit, callLog, fault, pointerDowns, sceneStarts>>

\* create with a second suspension point, an await between line 41 and line
\* 43: the world is assigned and holds the logo's body, the text and its body
\* are added only when create is resumed
InitResolveSuspended ==
    /\ activeScene = "Game" /\ fault = "none"
    /\ \/ /\ createPc = "awaiting"
          /\ createPc' = "populating"
          /\ entities' = [e \in {"background", "logo"} |-> SceneObjects[e]]
          /\ rapierWorld' = [NewWorld(GravityX, GravityY) EXCEPT
                                !.bodies = <<LogoBody(SceneObjects["logo"])>>]
          /\ worldsCreated' = worldsCreated + 1
          /\ framesAtInit' = frames
          /\ UNCHANGED listener
       \/ /\ createPc = "populating"
          /\ createPc' = "done"
          /\ entities' = [e \in EntityIds |->
                            IF e = "text" THEN SceneObjects[e] ELSE entities[e]]
          /\ rapierWorld' = [rapierWorld EXCEPT
                                !.bodies = Append(@, TextBody(SceneObjects["text"]))]
          /\ listener' = TRUE
          /\ UNCHANGED <<worldsCreated, framesAtInit>>
    /\ UNCHANGED <<activeScene, frames, callLog, fault, pointerDowns, sceneStarts>>

\* the continuation of create run on every completion signal, not once:
\* lines 16-64 run again although create has already finished
InitResolveAgain ==
    /\ createPc \in {"awaiting", "done"} /\ activeScene = "Game" /\ fault = "none"
    /\ createPc' = "done"
    /\ entities' = SceneObjects
    /\ rapierWorld' = SceneWorld(SceneObjects)
    /\ worldsCreated' = worldsCreated + 1
    /\ listener' = TRUE
    /\ framesAtInit' = frames
    /\ UNCHANGED <<activeScene, frames, callLog, fault, pointerDowns, sceneStarts>>

\* the init resolves: lines 16-64 run to the end of create without suspension
InitResolve ==
    /\ createPc = "awaiting" /\ activeScene = "Game" /\ fault = "none"
    /\ createPc' = "done"
    /\ entities' = SceneObjects
    /\ rapierWorld' = SceneWorld(SceneObjects)
    /\ worldsCreated' = worldsCreated + 1
    /\ listener' = TRUE
    /\ framesAtInit' = frames
    /\ UNCHANGED <<activeScene, frames, callLog, fault, pointerDowns, sceneStarts>>

\* the init rejects: create ends at its await
InitReject ==
    /\ createPc = "awaiting" /\ activeScene = "Game" /\ fault = "none"
    /\ createPc' = "rejected"
    /\ UNCHANGED <<rapierWorld, worldsCreated, entities, listener, activeScene,
                   frames, framesAtInit, callLog, fault, pointerDowns, sceneStarts>>

\* one frame: the scene's update () is called
UpdateCall ==
    /\ activeScene = "Game" /\ fault = "none"
    /\ LET r == GameUpdate(rapierWorld, entities)
       IN  /\ rapierWorld' = r.world
           /\ entities' = r.entities
           /\ callLog' = r.log
           /\ fault' = r.fault
    /\ frames' = frames + 1
    /\ UNCHANGED <<createPc, worldsCreated, listener, activeScene, framesAtInit,
                   pointerDowns, sceneStarts>>

Update ==
    /\ frames < MaxFrames
    /\ rapierWorld = NoWorld => frames < MaxIdleFrames
    /\ UpdateCall

\* the listener registered with this.input.on instead of once: it stays
\* registered after it has run
PointerDownOn ==
    /\ pointerDowns < MaxPointerDowns /\ fault = "none"
    /\ pointerDowns' = pointerDowns + 1
    /\ IF listener
       THEN /\ activeScene' = "GameOver"
            /\ sceneStarts' = sceneStarts + 1
            /\ UNCHANGED listener
       ELSE UNCHANGED <<listener, activeScene, sceneStarts>>
    /\ UNCHANGED <<createPc, rapierWorld, worldsCreated, entities,
                   frames, framesAtInit, callLog, fault>>

\* a pointerdown reaches the scene's input: the once-listener of lines 60-64,
\* if registered, is removed and starts 'GameOver'; otherwise the event is dropped
PointerDown ==
    /\ pointerDowns < MaxPointerDowns /\ fault = "none"
    /\ pointerDowns' = pointerDowns + 1
    /\ IF listener
       THEN /\ listener' = FALSE
            /\ activeScene' = "GameOver"
            /\ sceneStarts' = sceneStarts + 1
       ELSE UNCHANGED <<listener, activeScene, sceneStarts>>
    /\ UNCHANGED <<createPc, rapierWorld, worldsCreated, entities,
                   frames, framesAtInit, callLog, fault>>

Next == CreateBegin \/ InitResolve \/ InitReject \/ Update \/ PointerDown

Spec == Init /\ [][Next]_vars

\* ------------------------------------------- update on sample worlds
\* the bodies of the sample worlds: both types, moving and turning when dynamic,
\* associated with a game object or not
SampleBodies ==
    {[type |-> t, x |-> 3, y |-> y,
      vx |-> IF t = "dynamic" THEN 1 ELSE 0, vy |-> 0,
      rot |-> r, angvel |-> IF t = "dynamic" THEN 1 ELSE 0,
      userData |-> u, collider |-> NoCollider] :
        t \in {"dynamic", "fixed"}, y \in {10, 20}, r \in {1, 2},
        u \in {"logo", "text"} \cup FalsyUserData}

RECURSIVE SeqsUpTo(_, _)
SeqsUpTo(S, n) ==
    IF n = 0 THEN {<<>>}
    ELSE LET shorter == SeqsUpTo(S, n - 1)
         IN  shorter \cup {Append(q, b) : q \in shorter, b \in S}

\* the association is one-to-one: no game object is the user data of two bodies
OneToOne(bodies) ==
    \A i, j \in DOMAIN bodies :
        (bodies[i].userData = bodies[j].userData /\ bodies[i].userData \in EntityIds) => i = j

SampleWorlds ==
    {[NewWorld(0, 1) EXCEPT !.bodies = bs] :
        bs \in {q \in SeqsUpTo(SampleBodies, MaxBodies) : OneToOne(q)}}

SyncInit ==
    /\ createPc = "done"
    /\ rapierWorld \in SampleWorlds \cup {NoWorld}
    /\ worldsCreated = IF rapierWorld = NoWorld THEN 0 ELSE 1
    /\ entities = [e \in EntityIds |-> [x |-> 0, y |-> 0, rotation |-> 0, alpha |-> 100]]
    /\ listener = FALSE
    /\ activeScene = "Game"
    /\ frames = 0
    /\ framesAtInit = 0
    /\ callLog = <<>>
    /\ fault = "none"
    /\ pointerDowns = 0
    /\ sceneStarts = 0

SyncUpdate == frames < MaxSyncFrames /\ UpdateCall

\* one frame with the README's update in place of Game.update
ReadmeUpdateCall ==
    /\ frames < MaxSyncFrames
    /\ activeScene = "Game" /\ fault = "none"
    /\ LET r == ReadmeUpdate(rapierWorld, entities)
       IN  /\ rapierWorld' = r.world
           /\ entities' = r.entities
           /\ callLog' = r.log
           /\ fault' = r.fault
    /\ frames' = frames + 1
    /\ UNCHANGED <<createPc, worldsCreated, listener, activeScene, framesAtInit,
                   pointerDowns, sceneStarts>>

SyncNext == SyncUpdate

SyncSpec == SyncInit /\ [][SyncNext]_vars

\* update with the step guarded: try { step } catch { } and the copy loop run
\* on whatever state the engine was left in
ThrowingUpdateCaught(w, ents, after) ==
    IF WorldInitialized(w)
    THEN LET acc == SyncBodies([entities |-> ents,
                                log |-> <<Entry("step", 0, "throws", 0)>>,
                                fault |-> "none"], after.bodies, 1)
         IN  [world |-> after, entities |-> acc.entities,
              log |-> acc.log, fault |-> acc.fault]
    ELSE [world |-> w, entities |-> ents, log |-> <<>>, fault |-> "none"]

\* update (), lines 67-90, when this.rapierWorld.step() of line 73 throws: no
\* try encloses the call, so the exception leaves update before the loop of
\* line 76; `after` is the state the engine was left in
ThrowingUpdate(w, ents, after) ==
    IF WorldInitialized(w)
    THEN [world |-> after, entities |-> ents,
          log |-> <<Entry("step", 0, "throws", 0)>>, fault |-> "EngineError"]
    ELSE [world |-> w, entities |-> ents, log |-> <<>>, fault |-> "none"]

\* the states a throwing step may leave the engine in: untouched, or stepped
AfterThrow(w) == IF w = NoWorld THEN {w} ELSE {w, WorldStep(w)}

\* one frame in which the engine's step throws
UpdateStepThrows ==
    /\ frames < MaxSyncFrames
    /\ activeScene = "Game" /\ fault = "none"
    /\ rapierWorld # NoWorld
    /\ \E after \in AfterThrow(rapierWorld) :
          LET r == ThrowingUpdate(rapierWorld, entities, after)
          IN  /\ rapierWorld' = r.world
              /\ entities' = r.entities
              /\ callLog' = r.log
              /\ fault' = r.fault
    /\ frames' = frames + 1
    /\ UNCHANGED <<createPc, worldsCreated, listener, activeScene, framesAtInit,
                   pointerDowns, sceneStarts>>

FaultNext == SyncUpdate \/ UpdateStepThrows

FaultSpec == SyncInit /\ [][FaultNext]_vars

\* sample worlds in which a game object may be the user data of two bodies
PermInit ==
    /\ createPc = "done"
    /\ rapierWorld \in
          {[NewWorld(0, 1) EXCEPT !.bodies = bs] : bs \in SeqsUpTo(SampleBodies, MaxBodies)}
    /\ worldsCreated = 1
    /\ entities = [e \in EntityIds |-> [x |-> 0, y |-> 0, rotation |-> 0, alpha |-> 100]]
    /\ listener = FALSE
    /\ activeScene = "Game"
    /\ frames = 0
    /\ framesAtInit = 0
    /\ callLog = <<>>
    /\ fault = "none"
    /\ pointerDowns = 0
    /\ sceneStarts = 0

PermNext == SyncUpdate

PermSpec == PermInit /\ [][PermNext]_vars

ReadmeNext == SyncUpdate \/ ReadmeUpdateCall

ReadmeSpec == SyncInit /\ [][ReadmeNext]_vars

\* ================================================================= claims
\* a frame: one call of update was made in this step
Frame == frames' = frames + 1

\* the game objects associated with a body of the world
Associated(w) ==
    IF w = NoWorld THEN {}
    ELSE {w.bodies[i].userData : i \in DOMAIN w.bodies} \cap EntityIds

\* C1: a call of update made while this.rapierWorld is still undefined is a
\* no-op: it makes no engine or game-object call (so no step), leaves the
\* world undefined, changes no game object and throws nothing.
C1_NoOpBeforeInit ==
    [][(Frame /\ rapierWorld = NoWorld) =>
          /\ rapierWorld' = NoWorld
          /\ worldsCreated' = worldsCreated
          /\ entities' = entities
          /\ callLog' = <<>>
          /\ fault' = "none"]_vars

\* update has been called while create is suspended at its await
C1_Witness ==
    createPc = "awaiting" /\ frames > 0 /\ rapierWorld = NoWorld /\ fault = "none"

\* the value a logged write must carry: the body's field in the current world
BodyField(b, op) ==
    CASE op = "set x" -> b.x
      [] op = "set y" -> b.y
      [] op = "setRotation" -> b.rot

WriteOps == {"set x", "set y", "setRotation"}

\* C2: in every call of update on an initialized world the step is the first
\* call made, before any read of a body and any write to a game object, and
\* every value written is the body's value in the stepped world.
C2_StepBeforeCopy ==
    \A k \in DOMAIN callLog :
        /\ (callLog[k].op = "step") <=> (k = 1)
        /\ callLog[k].op \in WriteOps =>
              callLog[k].value = BodyField(rapierWorld.bodies[callLog[k].body], callLog[k].op)

\* update has stepped a world and written the moved transform of a dynamic body
C2_Witness ==
    /\ fault = "none" /\ rapierWorld # NoWorld
    /\ \E k \in DOMAIN callLog :
          /\ callLog[k].op = "set y"
          /\ rapierWorld.bodies[callLog[k].body].type = "dynamic"
          /\ rapierWorld.bodies[callLog[k].body].vy > 0

\* C3: after every call of update on an initialized world, each body with a
\* game object has that object's x and y equal to its translation in the
\* stepped world, and setRotation was called on that object exactly once
\* for that body, with the body's rotation.
C3_EntityEqualsBody ==
    (rapierWorld # NoWorld /\ frames > 0) =>
        \A i \in DOMAIN rapierWorld.bodies :
            LET b == rapierWorld.bodies[i]
            IN  b.userData \in EntityIds =>
                  /\ entities[b.userData].x = b.x
                  /\ entities[b.userData].y = b.y
                  /\ Cardinality({k \in DOMAIN callLog :
                          callLog[k].op = "setRotation" /\ callLog[k].body = i}) = 1
                  /\ \A k \in DOMAIN callLog :
                        (callLog[k].op = "setRotation" /\ callLog[k].body = i) =>
                            callLog[k].target = b.userData /\ callLog[k].value = b.rot

\* two frames have run on a world with a turning, falling body that has a game object
C3_Witness ==
    /\ rapierWorld # NoWorld /\ frames = 2 /\ fault = "none"
    /\ \E i \in DOMAIN rapierWorld.bodies :
          /\ rapierWorld.bodies[i].type = "dynamic"
          /\ rapierWorld.bodies[i].userData = "logo"
          /\ rapierWorld.bodies[i].rot # 0
          /\ entities["logo"].y = rapierWorld.bodies[i].y

\* the copy loop run on the bodies that have a game object only
CopyAssociatedOnly(bodies, ents) ==
    LET RECURSIVE Go(_, _)
        Go(i, es) ==
            IF i > Len(bodies) THEN es
            ELSE IF bodies[i].userData \in EntityIds
                 THEN Go(i + 1, [es EXCEPT ![bodies[i].userData] =
                            [@ EXCEPT !.x = bodies[i].x, !.y = bodies[i].y,
                                      !.rotation = WrapAngle(bodies[i].rot)]])
                 ELSE Go(i + 1, es)
    IN  Go(1, ents)

\* C4: in every call of update on an initialized world every body is
\* enumerated exactly once, nothing is thrown, a body whose user data is
\* falsy is neither read nor written for, and the game objects end as if the
\* loop had run over the bodies with a game object only.
C4_UnassociatedSkipped ==
    [][(Frame /\ rapierWorld # NoWorld) =>
          /\ fault' = "none"
          /\ \A i \in DOMAIN rapierWorld'.bodies :
                /\ Cardinality({k \in DOMAIN callLog' :
                        callLog'[k].op = "userData" /\ callLog'[k].body = i}) = 1
                /\ rapierWorld'.bodies[i].userData \in FalsyUserData =>
                      \A k \in DOMAIN callLog' :
                          callLog'[k].body = i => callLog'[k].op = "userData"
          /\ entities' = CopyAssociatedOnly(rapierWorld'.bodies, entities)]_vars

\* update has run on a world holding a body without a game object (null user
\* data) next to a body with one
C4_Witness ==
    /\ rapierWorld # NoWorld /\ frames > 0 /\ fault = "none"
    /\ \E i, j \in DOMAIN rapierWorld.bodies :
          /\ rapierWorld.bodies[i].userData = "null"
          /\ rapierWorld.bodies[j].userData = "logo"
          /\ entities["logo"].y = rapierWorld.bodies[j].y
          /\ \E k \in DOMAIN callLog : callLog[k].op = "userData" /\ callLog[k].body = i

\* the logo's y after n steps of free fall from its place of creation
FreeFallY(n) == LogoY * Scale + GravityY * ((n * (n + 1)) \div 2)

\* C5: every call of update on an initialized world steps it exactly once:
\* the world has been stepped as often as update has been called since the
\* init completed, and while the logo falls freely its game object shows the
\* accumulated fall of all those steps.
C5_OneStepPerFrame ==
    rapierWorld # NoWorld =>
        /\ rapierWorld.steps = frames - framesAtInit
        /\ rapierWorld.contacts = 0 => entities["logo"].y = FreeFallY(frames - framesAtInit)

\* update has been called twice in succession after the init
C5_Witness ==
    /\ rapierWorld # NoWorld /\ frames - framesAtInit = 2 /\ rapierWorld.steps = 2
    /\ entities["logo"].y = LogoY * Scale + 3 * GravityY

\* C6: the text, the game object of the fixed body, is at (512, 584) after
\* every call of update, as when it was created.
C6_FixedEntityStays ==
    "text" \in DOMAIN entities =>
        entities["text"].x = TextX * Scale /\ entities["text"].y = TextY * Scale

\* many frames have run, the logo has come down onto the text's body, and the
\* text has been written by the last update
C6_Witness ==
    /\ rapierWorld # NoWorld /\ rapierWorld.steps > 1 /\ rapierWorld.contacts > 0
    /\ \E k \in DOMAIN callLog : callLog[k].op = "set y" /\ callLog[k].target = "text"
    /\ entities["text"].y = TextY * Scale

\* C7: from one call of update to the next the logo's y strictly increases,
\* in every frame up to the first one in which the fixed body's collision
\* response acts on the logo's body.
C7_LogoFalls ==
    [][(Frame /\ rapierWorld # NoWorld /\ rapierWorld'.contacts = 0) =>
          entities'["logo"].y > entities["logo"].y]_vars

\* the logo has fallen for several frames and has not yet touched the text's body
C7_Witness ==
    /\ rapierWorld # NoWorld /\ rapierWorld.steps = 5 /\ rapierWorld.contacts = 0
    /\ entities["logo"].y > LogoY * Scale

\* C8: this.rapierWorld becomes a world only by the completion of the awaited
\* init, at most one world is ever created, a world once set is never unset
\* or replaced, and every later call of update steps that world.
C8_InitOnce ==
    [][/\ worldsCreated' <= 1
       /\ (rapierWorld = NoWorld /\ rapierWorld' # NoWorld) =>
              (createPc = "awaiting" /\ createPc' = "done" /\ worldsCreated' = 1)
       /\ rapierWorld # NoWorld =>
              /\ rapierWorld' # NoWorld
              /\ worldsCreated' = worldsCreated
              /\ Frame => rapierWorld'.steps = rapierWorld.steps + 1]_vars

\* frames ran as no-ops, then the init completed, then frames stepped the world
C8_Witness ==
    /\ createPc = "done" /\ worldsCreated = 1 /\ framesAtInit > 0
    /\ rapierWorld # NoWorld /\ rapierWorld.steps = 2

\* C9: the README's single-loop update does what Game.update does: called
\* on the same world and game objects it leaves the same world, the same
\* game objects and, like Game.update, throws nothing.
C9_ReadmeEquivalent ==
    [][ReadmeUpdateCall =>
          LET g == GameUpdate(rapierWorld, entities)
          IN  /\ rapierWorld' = g.world
              /\ entities' = g.entities
              /\ fault' = g.fault
              /\ fault' = "none"]_vars

\* what a body is apart from its motion: type, association, collider
BodyIdentity(b) == <<b.type, b.userData, b.collider>>

\* C10: a call of update leaves alone everything but the stepped state of
\* the world and the x, y and rotation of the associated game objects: the
\* bodies of the world and their user data, whether this.rapierWorld is set,
\* the set of game objects, their other fields, the game objects without a
\* body, and the rest of the scene.
C10_UpdateFrame ==
    [][Frame =>
          /\ (rapierWorld' = NoWorld) <=> (rapierWorld = NoWorld)
          /\ rapierWorld # NoWorld =>
                /\ Len(rapierWorld'.bodies) = Len(rapierWorld.bodies)
                /\ \A i \in DOMAIN rapierWorld.bodies :
                      BodyIdentity(rapierWorld'.bodies[i]) = BodyIdentity(rapierWorld.bodies[i])
                /\ rapierWorld'.gx = rapierWorld.gx /\ rapierWorld'.gy = rapierWorld.gy
          /\ DOMAIN entities' = DOMAIN entities
          /\ \A e \in DOMAIN entities :
                /\ entities'[e].alpha = entities[e].alpha
                /\ e \notin Associated(rapierWorld) => entities'[e] = entities[e]
          /\ UNCHANGED <<createPc, worldsCreated, listener, activeScene,
                         pointerDowns, sceneStarts>>]_vars

\* update has moved the logo while the background, which has no body, kept
\* its place and its alpha
C10_Witness ==
    /\ rapierWorld # NoWorld /\ rapierWorld.steps > 0
    /\ entities["logo"].y > LogoY * Scale
    /\ entities["background"] =
          [NewGameObject(BackgroundX, BackgroundY) EXCEPT !.alpha = BackgroundAlpha]

\* the user data of the bodies of a world, in the world's order
UserDataOf(w) == [i \in DOMAIN w.bodies |-> w.bodies[i].userData]

\* C11: the association of a body is the one given at its creation and is
\* never reassigned: whenever the world exists, its dynamic body is associated
\* with the logo and its fixed body with the text, no game object is the user
\* data of two bodies, and no step of the scene changes a body's user data.
C11_AssociationFixed ==
    [][/\ rapierWorld' # NoWorld =>
              /\ \E i \in DOMAIN rapierWorld'.bodies :
                    rapierWorld'.bodies[i].type = "dynamic"
                        /\ rapierWorld'.bodies[i].userData = "logo"
              /\ \E i \in DOMAIN rapierWorld'.bodies :
                    rapierWorld'.bodies[i].type = "fixed"
                        /\ rapierWorld'.bodies[i].userData = "text"
              /\ \A i, j \in DOMAIN rapierWorld'.bodies :
                    rapierWorld'.bodies[i].userData = rapierWorld'.bodies[j].userData => i = j
       /\ rapierWorld # NoWorld => UserDataOf(rapierWorld') = UserDataOf(rapierWorld)]_vars

\* the world has been stepped past the logo's first contact with the text's
\* body and the two associations are the ones of the creation
C11_Witness ==
    /\ rapierWorld # NoWorld /\ rapierWorld.contacts > 0 /\ rapierWorld.steps > 1
    /\ UserDataOf(rapierWorld) = <<"logo", "text">>

\* the last update called the step and the step threw
StepThrew(log) == Len(log) > 0 /\ log[1].op = "step" /\ log[1].target = "throws"

\* C12: when the engine's step throws during update, the error leaves update
\* as thrown, the step is the only call update has made (no second attempt,
\* no read, no write), and every game object is as it was before the call.
C12_StepFaultPropagates ==
    [][(Frame /\ StepThrew(callLog')) =>
          /\ fault' = "EngineError"
          /\ callLog' = <<Entry("step", 0, "throws", 0)>>
          /\ entities' = entities]_vars

\* a frame has synced the game objects, and in the next the step threw after
\* the engine had moved a dynamic body that has a game object
C12_Witness ==
    /\ fault = "EngineError" /\ frames = 2 /\ StepThrew(callLog)
    /\ rapierWorld # NoWorld /\ rapierWorld.steps = 2
    /\ \E i \in DOMAIN rapierWorld.bodies :
          /\ rapierWorld.bodies[i].type = "dynamic"
          /\ rapierWorld.bodies[i].userData = "logo"
          /\ entities["logo"].y # rapierWorld.bodies[i].y
          /\ entities["logo"].y > 0

\* the orders in which n bodies can be enumerated
Orders(n) == {p \in [1..n -> 1..n] : \A i, j \in 1..n : p[i] = p[j] => i = j}

\* the game objects after the copy loop of update run over the bodies in order p
CopyInOrder(bodies, p, ents) ==
    SyncBodies([entities |-> ents, log |-> <<>>, fault |-> "none"],
               [k \in DOMAIN bodies |-> bodies[p[k]]], 1).entities

\* C13: for a world whose associations are one-to-one the copy phase of
\* update gives the same game objects in whatever order the bodies of the
\* stepped world are enumerated.
C13_OrderIndependent ==
    [][(Frame /\ rapierWorld # NoWorld /\ OneToOne(rapierWorld.bodies)) =>
          \A p \in Orders(Len(rapierWorld'.bodies)) :
              CopyInOrder(rapierWorld'.bodies, p, entities) = entities']_vars

\* update has run on a one-to-one world of two bodies, a dynamic one with the
\* logo and one without a game object
C13_Witness ==
    /\ rapierWorld # NoWorld /\ frames > 0 /\ fault = "none"
    /\ Len(rapierWorld.bodies) = 2 /\ OneToOne(rapierWorld.bodies)
    /\ rapierWorld.bodies[1].userData = "logo" /\ rapierWorld.bodies[1].type = "dynamic"
    /\ rapierWorld.bodies[2].userData \in FalsyUserData
    /\ entities["logo"].y = rapierWorld.bodies[1].y

\* the world as create leaves it: the logo's dynamic body and the text's fixed
\* body, each with its association and its collider
FullyPopulated(w) ==
    /\ w # NoWorld
    /\ Len(w.bodies) = 2
    /\ \E i \in DOMAIN w.bodies :
          /\ w.bodies[i].type = "dynamic" /\ w.bodies[i].userData = "logo"
          /\ w.bodies[i].collider.hx > 0 /\ w.bodies[i].collider.hy > 0
    /\ \E i \in DOMAIN w.bodies :
          /\ w.bodies[i].type = "fixed" /\ w.bodies[i].userData = "text"
          /\ w.bodies[i].collider.hx > 0 /\ w.bodies[i].collider.hy > 0
    /\ EntityIds \subseteq DOMAIN entities

\* C14: under every interleaving of frames with create, a call of update
\* finds either no world or the world with both bodies, both associations and
\* both colliders; no call steps an empty or partly populated world.
C14_PopulationAtomic ==
    [][Frame => (rapierWorld = NoWorld \/ FullyPopulated(rapierWorld))]_vars

\* frames ran while create was suspended, and a frame has stepped the world
\* right after the init completed
C14_Witness ==
    /\ framesAtInit > 0 /\ frames > framesAtInit
    /\ FullyPopulated(rapierWorld) /\ rapierWorld.steps = frames - framesAtInit

\* C15: in every state between frames in which the world exists, the state
\* before the first stepping frame included, every game object that is the
\* user data of a body has the x and y of that body's translation.
C15_EntityAtBody ==
    rapierWorld # NoWorld =>
        \A i \in DOMAIN rapierWorld.bodies :
            LET b == rapierWorld.bodies[i]
            IN  b.userData \in EntityIds =>
                    /\ b.userData \in DOMAIN entities
                    /\ entities[b.userData].x = b.x
                    /\ entities[b.userData].y = b.y

\* the init has completed after some idle frames and no frame has yet stepped
\* the world: the logo and its body are both at (512, 100)
C15_Witness ==
    /\ createPc = "done" /\ rapierWorld # NoWorld /\ rapierWorld.steps = 0
    /\ frames = framesAtInit /\ frames > 0
    /\ rapierWorld.bodies[1].userData = "logo"
    /\ rapierWorld.bodies[1].y = LogoY * Scale /\ entities["logo"].y = LogoY * Scale

\* C16: this.scene.start('GameOver') is called at most once, only by a
\* pointerdown that arrives after the init has completed and the world is
\* fully populated; a pointerdown that arrives earlier starts nothing, and as
\* long as the init has not completed (pending for ever, or rejected) nothing
\* is started, no listener is registered and the world stays undefined, so
\* that every update is a no-op.
C16_TransitionOnce ==
    [][/\ sceneStarts' <= 1
       /\ sceneStarts' # sceneStarts =>
              /\ pointerDowns' = pointerDowns + 1
              /\ createPc = "done" /\ FullyPopulated(rapierWorld)
              /\ activeScene' = "GameOver"
       /\ (pointerDowns' # pointerDowns /\ createPc # "done") =>
              sceneStarts' = sceneStarts /\ activeScene' = activeScene
       /\ createPc' # "done" =>
              /\ sceneStarts' = 0 /\ activeScene' = "Game"
              /\ ~listener' /\ rapierWorld' = NoWorld
       /\ (Frame /\ createPc # "done") =>
              entities' = entities /\ rapierWorld' = NoWorld /\ callLog' = <<>>]_vars

\* two pointerdowns have arrived after the init completed and the transition
\* has been started by the first of them only
C16_Witness ==
    /\ createPc = "done" /\ pointerDowns = 2 /\ sceneStarts = 1
    /\ activeScene = "GameOver" /\ ~listener

====
